---- MODULE Spec2Model ----
(***************************************************************************)
(* Navigation / action-mode state machine of the Key Vault explorer TUI    *)
(* (main() of the explorer, src/PUBLISHING.md lines 398-1176).             *)
(*                                                                         *)
(* Strings are sequences of one-character strings, so that trim(),         *)
(* toLowerCase() and includes() are computed and not assumed.              *)
(* Every event handler is one action; a handler that awaits remote calls   *)
(* is taken up to its end (or up to the call that rejects), the outcome of *)
(* each remote call being chosen by the environment.                       *)
(***************************************************************************)
EXTENDS Integers, Sequences, FiniteSets, TLC

\* null / undefined: a value no string of the program is equal to
Null == <<"null">>

\* ------------------------------------------------------------------ bounds
\* number of store mutations (setSecret / beginDeleteSecret) in one run
MaxWrites == 1
\* number of remote calls the environment lets fail in one run
MaxFails == 1
\* number of actions (keys e, r, m, n) the user starts in one run
MaxActions == 1

\* ------------------------------------------------------------------ strings
Str(c) == <<c>>
EmptyStr == <<>>

IsSpace(c) == c = " "

RECURSIVE TrimLeft(_)
TrimLeft(s) == IF s # <<>> /\ IsSpace(Head(s)) THEN TrimLeft(Tail(s)) ELSE s

RECURSIVE TrimRight(_)
TrimRight(s) ==
  IF s # <<>> /\ IsSpace(s[Len(s)]) THEN TrimRight(SubSeq(s, 1, Len(s) - 1)) ELSE s

\* String.prototype.trim
Trim(s) == TrimRight(TrimLeft(s))

LowerChar(c) ==
  CASE c = "W" -> "w"
    [] c = "V" -> "v"
    [] c = "K" -> "k"
    [] c = "Q" -> "q"
    [] OTHER -> c

\* String.prototype.toLowerCase
ToLowerCase(s) == [i \in 1..Len(s) |-> LowerChar(s[i])]

\* String.prototype.includes
Includes(s, sub) ==
  \E i \in 0..(Len(s) - Len(sub)) : SubSeq(s, i + 1, i + Len(sub)) = sub

\* ------------------------------------------------------------------ universe
\* the discovered vaults, sorted by name (getVaultsAllSubscriptions)
VaultV == <<"v">>
VaultW == <<"w">>
DiscoveredVaults == <<VaultV, VaultW>>

SecretK == <<"k">>
Val1 == <<"1">>
Val2 == <<"2">>

\* texts the user submits in the command prompt
Inputs(mode) ==
  { <<" ", "q">> }
    \cup (IF mode \in {"editValue", "createValue"} THEN {} ELSE { EmptyStr })
    \cup (IF mode = "none" THEN { <<"q", "u", "i", "t">>, SecretK } ELSE {})
    \cup (IF mode = "rename" THEN { SecretK } ELSE {})
    \cup (IF mode = "moveTarget" THEN { <<"W">> } ELSE {})

\* texts the user types in the filter
FilterTexts == { EmptyStr, <<"W">> }

\* the order in which the store lists secret names
NameOrder == << SecretK, <<"q">>, VaultV, VaultW >>

EmptyMap == [x \in {} |-> Null]
Put(f, k, v) == [x \in (DOMAIN f) \cup {k} |-> IF x = k THEN v ELSE f[x]]
Remove(f, k) == [x \in (DOMAIN f) \ {k} |-> f[x]]

\* the remote store before the program starts
InitialStore ==
  [v \in {VaultV, VaultW} |->
     Put(EmptyMap, SecretK, IF v = VaultV THEN Val1 ELSE Val2)]

\* ------------------------------------------------------------------ state
VARIABLES
  state,               \* ViewState
  focus,               \* FocusTarget
  allVaults, filteredVaults,
  secretClient,        \* the vault the SecretClient is bound to, or Null
  currentVault,
  secretCache,         \* Map<string, string | null>
  allSecrets, filteredSecrets,
  atSecretDetail,
  actionMode, actionSecret, moveTargetVault, createNewSecretName,
  filterValue, filterFocused,            \* the filter InputElement
  listOptions, listSelectedIndex, listFocused,   \* the list SelectElement
  commandVisible, commandFocused,        \* the command bar InputElement
  details,             \* what the detail pane shows
  store,               \* the remote store: vault -> (secret name -> value)
  exitCalls,           \* the codes process.exit was called with
  writes, fails, actions,   \* environment counters (bounded)
  ev,                  \* the last prompt submit and the remote calls it made
  pending,             \* the remote calls in flight whose handler awaits them
  started              \* where the action in progress was started (WriteSpec)

vars ==
  << state, focus, allVaults, filteredVaults, secretClient, currentVault, secretCache,
     allSecrets, filteredSecrets, atSecretDetail, actionMode, actionSecret,
     moveTargetVault, createNewSecretName, filterValue, filterFocused,
     listOptions, listSelectedIndex, listFocused, commandVisible, commandFocused,
     details, store, exitCalls, writes, fails, actions, ev, pending, started >>

\* the detail pane's text
Msg(tag) == [t |-> tag, n |-> Null, v |-> Null]
PreviewText(name) == [t |-> "preview", n |-> Null, v |-> Null]
SecretText(name, value) == [t |-> "secret", n |-> name, v |-> Null]

\* The program state at the start of a handler, with the handler's scratch:
\* thrown (an exception left the handler), returned (an early return), ret
\* (the value of the last call), rejected (the last remote call rejected),
\* blocked (a budget of the run is used up), and the remote calls made: failed
\* (the kinds of call that rejected), fetched (getSecret), sets (setSecret that
\* succeeded), dels (beginDeleteSecret), listed (listPropertiesOfSecrets).
Cur ==
  [ state |-> state, focus |-> focus, allVaults |-> allVaults,
    filteredVaults |-> filteredVaults, secretClient |-> secretClient,
    currentVault |-> currentVault, secretCache |-> secretCache,
    allSecrets |-> allSecrets, filteredSecrets |-> filteredSecrets,
    atSecretDetail |-> atSecretDetail, actionMode |-> actionMode,
    actionSecret |-> actionSecret, moveTargetVault |-> moveTargetVault,
    createNewSecretName |-> createNewSecretName,
    filterValue |-> filterValue, filterFocused |-> filterFocused,
    listOptions |-> listOptions, listSelectedIndex |-> listSelectedIndex,
    listFocused |-> listFocused, commandVisible |-> commandVisible,
    commandFocused |-> commandFocused, details |-> details, store |-> store,
    exitCalls |-> exitCalls, writes |-> writes, fails |-> fails,
    actions |-> actions, pending |-> pending,
    thrown |-> FALSE, returned |-> FALSE, ret |-> Null, rejected |-> FALSE,
    blocked |-> FALSE, failed |-> {}, fetched |-> {}, sets |-> {}, dels |-> {},
    listed |-> {} ]

Throw(s) == [s EXCEPT !.thrown = TRUE]

Min(a, b) == IF a < b THEN a ELSE b
Max(a, b) == IF a > b THEN a ELSE b

\* ------------------------------------------------------------------ widgets
\* InputElement / SelectElement of the vendored widget library

\* list.setOptions: the selection index is clamped to the new options
listSetOptions(s, opts) ==
  [s EXCEPT !.listOptions = opts,
            !.listSelectedIndex = Min(s.listSelectedIndex, Max(0, Len(opts) - 1))]

\* list.getSelectedOption: the value of the selected option, or Null
getSelectedOption(s) ==
  IF s.listSelectedIndex < Len(s.listOptions)
    THEN s.listOptions[s.listSelectedIndex + 1]
    ELSE Null

\* list.on(SELECTION_CHANGED): the metadata preview of the selected secret
onSelectionChanged(s) ==
  IF s.focus # "list" THEN s
  ELSE IF s.state = "listSecrets" /\ getSelectedOption(s) # Null
    THEN [s EXCEPT !.details = PreviewText(getSelectedOption(s))]
    ELSE s

\* list.setSelectedIndex: sets a valid index and emits SELECTION_CHANGED
listSetSelectedIndex(s, i) ==
  IF i >= 0 /\ i < Len(s.listOptions)
    THEN onSelectionChanged([s EXCEPT !.listSelectedIndex = i])
    ELSE s

setListOptionsFromVaults(s, items) == listSetOptions(s, items)

setListOptionsFromSecrets(s, items) == listSetOptions(s, items)

focusFilter(s) ==
  [s EXCEPT !.focus = "filter", !.filterFocused = TRUE, !.listFocused = FALSE,
            !.commandFocused = FALSE]

focusList(s) ==
  [s EXCEPT !.focus = "list", !.listFocused = TRUE, !.filterFocused = FALSE,
            !.commandFocused = FALSE]

openCommandBar(s) ==
  [s EXCEPT !.focus = "command", !.commandVisible = TRUE, !.commandFocused = TRUE]

closeCommandBar(s) ==
  LET t == [s EXCEPT !.commandVisible = FALSE, !.commandFocused = FALSE]
  IN  IF t.state = "selectVault" \/ t.state = "listSecrets"
        THEN IF t.focus = "filter" THEN focusFilter(t) ELSE focusList(t)
        ELSE t

\* commandBar.visible = true; commandBar.focus() of the action prompts
showCommandBar(s) == [s EXCEPT !.commandVisible = TRUE, !.commandFocused = TRUE]

\* the user starts one more action, while the run's budget of actions lasts
startAction(s) ==
  IF s.actions >= MaxActions
    THEN [s EXCEPT !.blocked = TRUE]
    ELSE [s EXCEPT !.actions = @ + 1]

\* ------------------------------------------------------------------ remote store
\* f is the set of remote calls the environment rejects in this handler
FailNow(s, f, call) == call \in f /\ s.fails < MaxFails

\* the sets of calls the environment may reject in one handler
FailSets(calls) == { f \in SUBSET calls : Cardinality(f) <= MaxFails - fails }

\* the outcomes of pbcopy: it works, or spawning it throws
ClipSets == { {}, {"clip"} }

ListNames(m) == SelectSeq(NameOrder, LAMBDA n : n \in DOMAIN m)

\* secretClient.listPropertiesOfSecrets()
storeList(s, vault, f) ==
  LET t == [s EXCEPT !.listed = @ \cup {vault}]
  IN  IF FailNow(s, f, "list")
        THEN [t EXCEPT !.rejected = TRUE, !.fails = @ + 1, !.failed = @ \cup {"list"}]
      ELSE IF vault \notin DOMAIN s.store
        THEN [t EXCEPT !.rejected = TRUE, !.failed = @ \cup {"list"}]
      ELSE [t EXCEPT !.rejected = FALSE, !.ret = ListNames(s.store[vault])]

\* secretClient.getSecret(name)
storeGet(s, vault, name, f) ==
  LET t == [s EXCEPT !.fetched = @ \cup {<<vault, name>>}]
  IN  IF FailNow(s, f, "get")
        THEN [t EXCEPT !.rejected = TRUE, !.fails = @ + 1, !.failed = @ \cup {"get"}]
      ELSE IF vault \notin DOMAIN s.store \/ name \notin DOMAIN s.store[vault]
        THEN [t EXCEPT !.rejected = TRUE, !.failed = @ \cup {"get"}]
      ELSE [t EXCEPT !.rejected = FALSE, !.ret = s.store[vault][name]]

\* client.setSecret(name, value)
storeSet(s, vault, name, value, f) ==
  IF s.writes >= MaxWrites
    THEN [s EXCEPT !.blocked = TRUE, !.rejected = TRUE]
  ELSE IF FailNow(s, f, "set")
    THEN [s EXCEPT !.rejected = TRUE, !.fails = @ + 1, !.failed = @ \cup {"set"}]
  ELSE IF vault \notin DOMAIN s.store
    THEN [s EXCEPT !.rejected = TRUE, !.failed = @ \cup {"set"}]
  ELSE [s EXCEPT !.rejected = FALSE, !.writes = @ + 1,
                 !.store[vault] = Put(@, name, value),
                 !.sets = @ \cup {<<vault, name, value>>}]

\* client.beginDeleteSecret(name)
storeDelete(s, vault, name, f) ==
  LET t == [s EXCEPT !.dels = @ \cup {<<vault, name>>}]
  IN  IF FailNow(s, f, "del")
        THEN [t EXCEPT !.rejected = TRUE, !.fails = @ + 1, !.failed = @ \cup {"del"}]
      ELSE IF vault \notin DOMAIN s.store \/ name \notin DOMAIN s.store[vault]
        THEN [t EXCEPT !.rejected = TRUE, !.failed = @ \cup {"del"}]
      ELSE [t EXCEPT !.rejected = FALSE, !.store[vault] = Remove(@, name)]

\* ------------------------------------------------------------------ helpers
\* a vault selection that leaves the filter text alone
selectVaultStartKeepingFilter(s, vault) ==
  LET s2 == focusList([s EXCEPT !.currentVault = vault])
  IN  [s2 EXCEPT !.state = "listSecrets", !.details = Msg("loadingSecrets"),
                 !.secretClient = vault]

\* selectVaultAndLoadSecrets up to the listing it awaits
selectVaultStart(s, vault) ==
  LET s2 == focusList([s EXCEPT !.currentVault = vault, !.filterValue = EmptyStr])
  IN  [s2 EXCEPT !.state = "listSecrets", !.details = Msg("loadingSecrets"),
                 !.secretClient = vault]

\* selectVaultAndLoadSecrets after the listing resolved with secrets
secretsLoaded(s, secrets) ==
  LET s5 == [s EXCEPT !.allSecrets = secrets, !.filteredSecrets = secrets]
      s6 == listSetSelectedIndex(setListOptionsFromSecrets(s5, s5.filteredSecrets), 0)
  IN  [s6 EXCEPT !.details = Msg("selectSecretHint"), !.atSecretDetail = FALSE]

selectVaultAndLoadSecrets(s, vault, f) ==
  IF vault = Null THEN Throw([s EXCEPT !.currentVault = vault])  \* currentVault!.name
  ELSE
    LET s4 == storeList(selectVaultStart(s, vault), vault, f)
    IN  IF s4.rejected THEN Throw(s4) ELSE secretsLoaded(s4, s4.ret)

\* a get that asks the store every time, whatever the cache holds
fetchIntoCacheAlways(s, name, f) ==
  LET g == storeGet(s, s.secretClient, name, f)
  IN  [g EXCEPT !.secretCache = Put(@, name, IF g.rejected THEN Null ELSE g.ret)]

\* the get-or-fetch both loadAndShowSecret and getSecretValue start with
fetchIntoCache(s, name, f) ==
  IF name \in DOMAIN s.secretCache THEN s
  ELSE LET g == storeGet(s, s.secretClient, name, f)
       IN  [g EXCEPT !.secretCache = Put(@, name, IF g.rejected THEN Null ELSE g.ret)]

\* loadAndShowSecret once the cache holds an entry for sp
showSecret(s, sp) ==
  [s EXCEPT !.details = SecretText(sp, s.secretCache[sp]), !.atSecretDetail = TRUE]

loadAndShowSecret(s, sp, f) ==
  IF s.secretClient = Null THEN s
  ELSE
    showSecret(fetchIntoCache(
                 IF sp \in DOMAIN s.secretCache THEN s
                 ELSE [s EXCEPT !.details = Msg("fetching")], sp, f), sp)

\* the result is left in ret
getSecretValue(s, sp, f) ==
  IF s.secretClient = Null THEN [s EXCEPT !.ret = Null]
  ELSE LET s1 == fetchIntoCache(s, sp, f)
       IN  [s1 EXCEPT !.ret = s1.secretCache[sp]]

setSecretValue(s, name, value, f) ==
  IF s.secretClient = Null THEN s
  ELSE LET s1 == storeSet(s, s.secretClient, name, value, f)
       IN  IF s1.rejected THEN Throw(s1)
           ELSE [s1 EXCEPT !.secretCache = Put(@, name, value)]

\* a back step that leaves the action mode of the new-name prompt as it is
goBackOneLayerKeepingMode(s) ==
  IF s.actionMode = "moveNewName"
    THEN focusList(setListOptionsFromVaults(
           [s EXCEPT !.commandVisible = FALSE,
                     !.state = "moveSelectTarget"], s.filteredVaults))
  ELSE IF s.atSecretDetail
    THEN [s EXCEPT !.atSecretDetail = FALSE, !.details = Msg("selectSecretHint")]
  ELSE IF s.state = "moveSelectTarget"
    THEN focusList(listSetSelectedIndex(
           setListOptionsFromSecrets([s EXCEPT !.state = "listSecrets"],
                                     s.filteredSecrets), 0))
  ELSE IF s.state = "listSecrets"
    THEN focusList(listSetSelectedIndex(
           setListOptionsFromVaults(
             [s EXCEPT !.state = "selectVault", !.currentVault = Null,
                       !.secretClient = Null, !.allSecrets = <<>>,
                       !.filteredSecrets = <<>>, !.details = Msg("empty")],
             s.filteredVaults), 0))
  ELSE s

goBackOneLayer(s) ==
  IF s.actionMode = "moveNewName"
    THEN focusList(setListOptionsFromVaults(
           [s EXCEPT !.actionMode = "moveTarget", !.commandVisible = FALSE,
                     !.state = "moveSelectTarget"], s.filteredVaults))
  ELSE IF s.atSecretDetail
    THEN [s EXCEPT !.atSecretDetail = FALSE, !.details = Msg("selectSecretHint")]
  ELSE IF s.state = "moveSelectTarget"
    THEN focusList(listSetSelectedIndex(
           setListOptionsFromSecrets([s EXCEPT !.state = "listSecrets"],
                                     s.filteredSecrets), 0))
  ELSE IF s.state = "listSecrets"
    THEN focusList(listSetSelectedIndex(
           setListOptionsFromVaults(
             [s EXCEPT !.state = "selectVault", !.currentVault = Null,
                       !.secretClient = Null, !.allSecrets = <<>>,
                       !.filteredSecrets = <<>>, !.details = Msg("empty")],
             s.filteredVaults), 0))
  ELSE s

\* the value ?? "" of the callers of getSecretValue
OrEmpty(v) == IF v = Null THEN EmptyStr ELSE v

\* quitClean(code): the renderer stops and the process exits with code
quitClean(s, code) == [s EXCEPT !.exitCalls = Append(@, code)]

\* ------------------------------------------------------------------ prompt submit
\* Array.prototype.findIndex (0-based, -1 when absent)
FindIndex(seq, name) ==
  IF \E i \in 1..Len(seq) : seq[i] = name
    THEN (CHOOSE i \in 1..Len(seq) :
            seq[i] = name /\ \A j \in 1..(i - 1) : seq[j] # name) - 1
    ELSE -1

\* allVaults.find((v) => v.name.toLowerCase() === targetName), Null when absent
FindVault(seq, targetName) ==
  LET lower == [i \in 1..Len(seq) |-> ToLowerCase(seq[i])]
  IN  IF FindIndex(lower, targetName) >= 0
        THEN seq[FindIndex(lower, targetName) + 1]
        ELSE Null

\* secretClient!.setSecret(name, value): a null client throws
clientSetSecret(s, name, value, f) ==
  IF s.secretClient = Null THEN Throw(s)
  ELSE LET s1 == storeSet(s, s.secretClient, name, value, f)
       IN  IF s1.rejected THEN Throw(s1) ELSE s1

submitEditValue(s, cmd, f) ==
  LET s1 == setSecretValue(s, s.actionSecret, cmd, f)
  IN  IF s1.thrown THEN s1
      ELSE loadAndShowSecret([s1 EXCEPT !.details = Msg("updated")], s1.actionSecret, f)

submitRename(s, cmd, f) ==
  LET newName == Trim(cmd)
  IN  IF newName # EmptyStr /\ newName # s.actionSecret
        THEN
          LET s1 == getSecretValue(s, s.actionSecret, f)
              s2 == clientSetSecret(s1, newName, OrEmpty(s1.ret), f)
              s3 == storeDelete(s2, s2.secretClient, s2.actionSecret, f)
          IN  IF s2.thrown THEN s2
              ELSE selectVaultAndLoadSecrets([s3 EXCEPT !.details = Msg("renamed")],
                                             s3.currentVault, f)
        ELSE s

submitMoveTarget(s, cmd, f) ==
  LET targetName == ToLowerCase(Trim(cmd))
      targetVault == FindVault(s.allVaults, targetName)
  IN  IF targetVault # Null
        THEN [showCommandBar([s EXCEPT !.moveTargetVault = targetVault,
                                       !.actionMode = "moveNewName"])
                EXCEPT !.returned = TRUE]
        ELSE [s EXCEPT !.details = Msg("vaultNotFound")]

submitMoveNewName(s, cmd, f) ==
  LET newName == Trim(cmd)
      s1 == getSecretValue(s, s.actionSecret, f)
      s2 == storeSet(s1, s1.moveTargetVault,
                     IF newName # EmptyStr THEN newName ELSE s1.actionSecret,
                     OrEmpty(s1.ret), f)
  IN  IF s2.rejected THEN Throw(s2)
      ELSE selectVaultAndLoadSecrets([s2 EXCEPT !.details = Msg("copied")],
                                     s2.currentVault, f)

submitCreateName(s, cmd, f) ==
  LET name == Trim(cmd)
  IN  IF name = EmptyStr
        THEN [s EXCEPT !.details = Msg("nameEmpty")]
        ELSE [showCommandBar([s EXCEPT !.createNewSecretName = name,
                                       !.actionMode = "createValue"])
                EXCEPT !.returned = TRUE]

\* a CreateValue submit that does not seed the cache with the submitted value
submitCreateValueUnseeded(s, cmd, f) ==
  LET createdName == s.createNewSecretName
      s1 == clientSetSecret(s, createdName, cmd, f)
  IN  IF s1.thrown THEN s1
      ELSE
        LET s2 == [s1 EXCEPT !.details = Msg("created"),
                             !.createNewSecretName = Null]
            s3 == selectVaultAndLoadSecrets(s2, s2.currentVault, f)
            idx == FindIndex(s3.filteredSecrets, createdName)
        IN  IF s3.thrown THEN s3
            ELSE IF idx >= 0
              THEN loadAndShowSecret(listSetSelectedIndex(s3, idx),
                                     s3.filteredSecrets[idx + 1], f)
              ELSE s3

submitCreateValue(s, cmd, f) ==
  LET createdName == s.createNewSecretName
      s1 == clientSetSecret(s, createdName, cmd, f)
  IN  IF s1.thrown THEN s1
      ELSE
        LET s2 == [s1 EXCEPT !.secretCache = Put(@, createdName, cmd),
                             !.details = Msg("created"),
                             !.createNewSecretName = Null]
            s3 == selectVaultAndLoadSecrets(s2, s2.currentVault, f)
            idx == FindIndex(s3.filteredSecrets, createdName)
        IN  IF s3.thrown THEN s3
            ELSE IF idx >= 0
              THEN loadAndShowSecret(listSetSelectedIndex(s3, idx),
                                     s3.filteredSecrets[idx + 1], f)
              ELSE s3

\* a top-level command compared without trimming it
submitCommandUntrimmed(s, cmd, f) ==
  IF cmd = <<"q">> \/ cmd = <<"q", "u", "i", "t">>
    THEN quitClean(s, 0)
    ELSE s

\* the else branch: a top-level command
submitCommand(s, cmd, f) ==
  LET trimmed == Trim(cmd)
  IN  IF trimmed = <<"q">> \/ trimmed = <<"q", "u", "i", "t">>
        THEN quitClean(s, 0)
        ELSE s

\* the branch of the submit handler the action mode and its payload select
submitBranch(s, cmd, f) ==
  IF s.actionMode = "editValue" /\ s.actionSecret # Null
    THEN submitEditValue(s, cmd, f)
  ELSE IF s.actionMode = "rename" /\ s.actionSecret # Null
    THEN submitRename(s, cmd, f)
  ELSE IF s.actionMode = "moveTarget" /\ s.actionSecret # Null
    THEN submitMoveTarget(s, cmd, f)
  ELSE IF s.actionMode = "moveNewName" /\ s.actionSecret # Null
          /\ s.moveTargetVault # Null
    THEN submitMoveNewName(s, cmd, f)
  ELSE IF s.actionMode = "createName"
    THEN submitCreateName(s, cmd, f)
  ELSE IF s.actionMode = "createValue" /\ s.createNewSecretName # Null
          /\ s.createNewSecretName # EmptyStr
    THEN submitCreateValue(s, cmd, f)
  ELSE submitCommand(s, cmd, f)

\* the reset every branch that neither returns nor throws ends with
resetAction(s) ==
  closeCommandBar([s EXCEPT !.actionMode = "none", !.actionSecret = Null])

\* commandBar.on(ENTER)
commandBarEnter(s, cmd, f) ==
  LET s1 == submitBranch(s, cmd, f)
  IN  IF s1.thrown \/ s1.returned THEN s1 ELSE resetAction(s1)

\* ------------------------------------------------------------------ other handlers
\* a filter that compares the names as they are written
filterByNameCaseSensitive(items, val) ==
  SelectSeq(items, LAMBDA n : Includes(n, val))

\* the items whose lower-cased name includes the lower-cased query
filterByName(items, val) ==
  SelectSeq(items, LAMBDA n : Includes(ToLowerCase(n), ToLowerCase(val)))

\* filter.on(INPUT)
filterInput(s, val) ==
  IF s.state = "selectVault" \/ s.state = "moveSelectTarget"
    THEN setListOptionsFromVaults(
           [s EXCEPT !.filteredVaults = filterByName(s.allVaults, val)],
           filterByName(s.allVaults, val))
  ELSE IF s.state = "listSecrets"
    THEN setListOptionsFromSecrets(
           [s EXCEPT !.filteredSecrets = filterByName(s.allSecrets, val)],
           filterByName(s.allSecrets, val))
  ELSE s

\* the move prompt the list and the filter open for the chosen target vault
chooseMoveTarget(s, targetVault) ==
  showCommandBar([s EXCEPT !.moveTargetVault = targetVault,
                           !.actionMode = "moveNewName"])

\* what ITEM_SELECTED and the filter's ENTER do with the selected option
openSelected(s, selected, f) ==
  IF s.state = "selectVault"
    THEN LET s1 == selectVaultAndLoadSecrets(s, selected, f)
         IN  IF s1.thrown THEN s1 ELSE focusList(s1)
  ELSE IF s.state = "listSecrets"
    THEN focusList(loadAndShowSecret(s, selected, f))
  ELSE IF s.state = "moveSelectTarget"
    THEN chooseMoveTarget(s, selected)
  ELSE s

\* list.on(ITEM_SELECTED)
listItemSelected(s, f) ==
  IF getSelectedOption(s) = Null THEN s
  ELSE IF s.focus # "list" THEN s
  ELSE openSelected(s, getSelectedOption(s), f)

\* a list whose Enter is not held back while the command bar is visible
listHandleKeyPressUnguarded(s, f) == listItemSelected(s, f)

\* the override of list.handleKeyPress: Enter is swallowed while the command
\* bar is visible, else the list activates the selected option
listHandleKeyPress(s, f) ==
  IF s.commandVisible THEN s ELSE listItemSelected(s, f)

\* filter.on(ENTER)
filterEnter(s, f) ==
  IF s.commandVisible THEN s
  ELSE IF getSelectedOption(s) = Null THEN s
  ELSE openSelected(s, getSelectedOption(s), f)

\* ------------------------------------------------------------------ keys
KeyCopy(s, sp, f) ==
  [getSecretValue(s, sp, f) EXCEPT
     !.details = IF "clip" \in f THEN Msg("copyFailed") ELSE Msg("clipboard")]

KeyEdit(s, sp, f) ==
  showCommandBar([getSecretValue(s, sp, f) EXCEPT
                    !.actionMode = "editValue", !.actionSecret = sp])

\* a rename key that deletes the secret before it asks for the new name
KeyRenameDeleting(s, sp) ==
  showCommandBar([storeDelete(s, s.secretClient, sp, {}) EXCEPT
                    !.actionMode = "rename", !.actionSecret = sp])

KeyRename(s, sp) ==
  showCommandBar([s EXCEPT !.actionMode = "rename", !.actionSecret = sp])

KeyMove(s, sp) ==
  LET s1 == [s EXCEPT !.actionMode = "moveTarget", !.actionSecret = sp,
                      !.moveTargetVault = Null,
                      !.state = "moveSelectTarget", !.filterValue = EmptyStr,
                      !.filteredVaults = s.allVaults]
      s2 == focusList(listSetSelectedIndex(
                        setListOptionsFromVaults(s1, s1.filteredVaults), 0))
  IN  [s2 EXCEPT !.details = Msg("moveSelect")]

KeyNew(s) ==
  showCommandBar([s EXCEPT !.actionMode = "createName", !.createNewSecretName = Null])

\* an Escape that looks at the filter focus before the prompt
KeyEscapeFilterFirst(s) ==
  IF s.focus = "filter" THEN focusList(s)
  ELSE IF s.commandVisible THEN closeCommandBar(s)
  ELSE goBackOneLayer(s)

KeyEscape(s) ==
  IF s.commandVisible THEN closeCommandBar(s)
  ELSE IF s.focus = "filter" THEN focusList(s)
  ELSE goBackOneLayer(s)

KeyNames ==
  { <<"/">>, <<":">>, <<"tab">>, <<"escape">>, <<"c">>, <<"e">>, <<"r">>, <<"m">>,
    <<"n">>, <<"b">> }

\* keys.on("keypress")
keypress(s, name, f) ==
  IF name = <<"/">> THEN focusFilter(s)
  ELSE IF name = <<":">> THEN openCommandBar(s)
  ELSE IF name = <<"tab">>
    THEN IF s.focus = "filter" THEN focusList(s) ELSE focusFilter(s)
  ELSE IF name = <<"escape">> THEN KeyEscape(s)
  ELSE IF s.state = "listSecrets" /\ s.focus = "list" /\ s.atSecretDetail
          /\ getSelectedOption(s) # Null
          /\ name \in { <<"c">>, <<"e">>, <<"r">>, <<"m">> }
    THEN CASE name = <<"c">> -> KeyCopy(s, getSelectedOption(s), f)
           [] name = <<"e">> -> KeyEdit(startAction(s), getSelectedOption(s), f)
           [] name = <<"r">> -> KeyRename(startAction(s), getSelectedOption(s))
           [] name = <<"m">> -> KeyMove(startAction(s), getSelectedOption(s))
  ELSE IF s.state = "listSecrets" /\ s.focus = "list" /\ name = <<"n">>
    THEN KeyNew(startAction(s))
  ELSE IF name = <<"b">> THEN goBackOneLayer(s)
  ELSE s

\* ------------------------------------------------------------------ specification
Event(op, arg, r) ==
  IF op = "submit"
    THEN [ op |-> op, arg |-> arg, mode |-> actionMode, thrown |-> r.thrown,
           failed |-> r.failed, fetched |-> r.fetched, sets |-> r.sets,
           dels |-> r.dels, listed |-> r.listed ]
    ELSE [ op |-> IF op = "key" /\ arg = <<"escape">> THEN "escape" ELSE "other",
           arg |-> Null, mode |-> "none", thrown |-> FALSE,
           failed |-> {}, fetched |-> {}, sets |-> {}, dels |-> {}, listed |-> {} ]

NoEvent ==
  [ op |-> "start", arg |-> Null, mode |-> "none", thrown |-> FALSE,
    failed |-> {}, fetched |-> {}, sets |-> {}, dels |-> {}, listed |-> {} ]

\* no action is in progress
NotStarted == [vault |-> Null, secret |-> Null]

\* the handler's final state becomes the program state
Assign(r) ==
  /\ ~r.blocked
  /\ state' = r.state
  /\ focus' = r.focus
  /\ allVaults' = r.allVaults
  /\ filteredVaults' = r.filteredVaults
  /\ secretClient' = r.secretClient
  /\ currentVault' = r.currentVault
  /\ secretCache' = r.secretCache
  /\ allSecrets' = r.allSecrets
  /\ filteredSecrets' = r.filteredSecrets
  /\ atSecretDetail' = r.atSecretDetail
  /\ actionMode' = r.actionMode
  /\ actionSecret' = r.actionSecret
  /\ moveTargetVault' = r.moveTargetVault
  /\ createNewSecretName' = r.createNewSecretName
  /\ filterValue' = r.filterValue
  /\ filterFocused' = r.filterFocused
  /\ listOptions' = r.listOptions
  /\ listSelectedIndex' = r.listSelectedIndex
  /\ listFocused' = r.listFocused
  /\ commandVisible' = r.commandVisible
  /\ commandFocused' = r.commandFocused
  /\ details' = r.details
  /\ store' = r.store
  /\ exitCalls' = r.exitCalls
  /\ writes' = r.writes
  /\ fails' = r.fails
  /\ actions' = r.actions
  /\ pending' = r.pending

\* the same, in the specifications that do not follow where actions start
Commit(r) == Assign(r) /\ started' = started

\* main(), once the initial load ended with the vaults found and the text shown
Booted(vaults, text) ==
  /\ allVaults = vaults
  /\ filteredVaults = vaults
  /\ listOptions = vaults
  /\ details = text
  /\ state = "selectVault"
  /\ focus = "list"
  /\ secretClient = Null
  /\ currentVault = Null
  /\ secretCache = EmptyMap
  /\ allSecrets = <<>>
  /\ filteredSecrets = <<>>
  /\ atSecretDetail = FALSE
  /\ actionMode = "none"
  /\ actionSecret = Null
  /\ moveTargetVault = Null
  /\ createNewSecretName = Null
  /\ filterValue = EmptyStr
  /\ filterFocused = FALSE
  /\ listSelectedIndex = 0
  /\ listFocused = TRUE
  /\ commandVisible = FALSE
  /\ commandFocused = FALSE
  /\ store = InitialStore
  /\ exitCalls = <<>>
  /\ writes = 0
  /\ fails = 0
  /\ actions = 0
  /\ ev = NoEvent
  /\ pending = <<>>
  /\ started = NotStarted

\* main(), after the initial vault discovery succeeded or failed
Init ==
  \E loaded \in BOOLEAN :
    Booted(IF loaded THEN DiscoveredVaults ELSE <<>>,
           IF loaded THEN Msg("selectVaultHint") ELSE Msg("loadFailed"))

Running == exitCalls = <<>>

\* a key press reaches the global key handler whatever widget has the focus
KeyPress ==
  /\ Running
  /\ \E name \in KeyNames :
     \E f \in (IF name \in { <<"c">>, <<"e">> } THEN FailSets({"get"}) ELSE {{}}),
        c \in (IF name = <<"c">> THEN ClipSets ELSE {{}}) :
       LET r == keypress(Cur, name, f \cup c)
       IN  Commit(r) /\ ev' = Event("key", name, r)

\* Enter in the focused command bar submits its text
CommandBarEnter ==
  /\ Running
  /\ commandFocused
  /\ \E cmd \in Inputs(actionMode), f \in FailSets({"get", "set", "del"}) :
       LET r == commandBarEnter(Cur, cmd, f)
       IN  Commit(r) /\ ev' = Event("submit", cmd, r)

\* typing in the focused filter changes its text
FilterInput ==
  /\ Running
  /\ filterFocused
  /\ \E val \in FilterTexts \ {filterValue} :
       LET r == filterInput([Cur EXCEPT !.filterValue = val], val)
       IN  Commit(r) /\ ev' = Event("filterInput", val, r)

\* Enter in the focused filter
FilterEnter ==
  /\ Running
  /\ filterFocused
  /\ \E f \in FailSets({"get"}) :
       LET r == filterEnter(Cur, f)
       IN  Commit(r) /\ ev' = Event("filterEnter", Null, r)

\* up / down in the focused list (wrapSelection) moves the selection
ListMove ==
  /\ Running
  /\ listFocused
  /\ Len(listOptions) > 0
  /\ \E d \in {1, Len(listOptions) - 1} :
       LET r == listSetSelectedIndex(Cur, (listSelectedIndex + d) % Len(listOptions))
       IN  Commit(r) /\ ev' = Event("listMove", Null, r)

\* Enter in the focused list
ListEnter ==
  /\ Running
  /\ listFocused
  /\ \E f \in FailSets({"get"}) :
       LET r == listHandleKeyPress(Cur, f)
       IN  Commit(r) /\ ev' = Event("listEnter", Null, r)

Next ==
  \/ KeyPress
  \/ CommandBarEnter
  \/ FilterInput
  \/ FilterEnter
  \/ ListMove
  \/ ListEnter

Spec == Init /\ [][Next]_vars

\* ------------------------------------------------------------------ awaited calls
\* The handlers are async functions: at an await of a remote call the handler
\* is suspended, the event loop delivers further input, and the handler resumes
\* when the call resolves. Spec runs each handler with its calls as one step;
\* AsyncSpec splits vault selection and secret opening at their await.

\* number of remote calls in flight at once
MaxPending == 2

Call(kind, vault, name) == [call |-> kind, vault |-> vault, name |-> name]

RemoveAt(seq, i) == SubSeq(seq, 1, i - 1) \o SubSeq(seq, i + 1, Len(seq))

\* a selection that joins the get already in flight for the same secret
itemSelectedStartSingleFlight(s) ==
  LET selected == getSelectedOption(s)
  IN  IF selected = Null THEN s
      ELSE IF s.focus # "list" THEN s
      ELSE IF s.state = "selectVault"
        THEN [selectVaultStart(s, selected) EXCEPT
                !.pending = Append(@, Call("list", selected, Null))]
      ELSE IF s.state = "listSecrets"
        THEN IF s.secretClient = Null THEN focusList(s)
             ELSE IF selected \in DOMAIN s.secretCache
               THEN focusList(showSecret(s, selected))
             ELSE IF \E i \in 1..Len(s.pending) :
                       s.pending[i] = Call("get", s.secretClient, selected)
               THEN [s EXCEPT !.details = Msg("fetching")]
             ELSE [s EXCEPT !.details = Msg("fetching"),
                            !.pending = Append(@, Call("get", s.secretClient, selected))]
      ELSE IF s.state = "moveSelectTarget" THEN chooseMoveTarget(s, selected)
      ELSE s

\* list.on(ITEM_SELECTED) up to the remote call it awaits
itemSelectedStart(s) ==
  LET selected == getSelectedOption(s)
  IN  IF selected = Null THEN s
      ELSE IF s.focus # "list" THEN s
      ELSE IF s.state = "selectVault"
        THEN [selectVaultStart(s, selected) EXCEPT
                !.pending = Append(@, Call("list", selected, Null))]
      ELSE IF s.state = "listSecrets"
        THEN IF s.secretClient = Null THEN focusList(s)
             ELSE IF selected \in DOMAIN s.secretCache
               THEN focusList(showSecret(s, selected))
             ELSE [s EXCEPT !.details = Msg("fetching"),
                            !.pending = Append(@, Call("get", s.secretClient, selected))]
      ELSE IF s.state = "moveSelectTarget" THEN chooseMoveTarget(s, selected)
      ELSE s

\* the rest of list.on(ITEM_SELECTED) once the call p it awaits has settled;
\* a rejected listing ends the handler, a rejected getSecret caches null
itemSelectedResume(s, p, ok) ==
  IF p.call = "list"
    THEN IF ok /\ p.vault \in DOMAIN s.store
           THEN focusList(secretsLoaded(s, ListNames(s.store[p.vault])))
           ELSE s
    ELSE LET found == ok /\ p.vault \in DOMAIN s.store
                         /\ p.name \in DOMAIN s.store[p.vault]
             value == IF found THEN s.store[p.vault][p.name] ELSE Null
         IN  focusList(showSecret([s EXCEPT !.secretCache = Put(@, p.name, value)],
                                  p.name))

\* the keys whose handler awaits nothing
SyncKeyNames == { <<"/">>, <<"tab">>, <<"escape">>, <<"b">> }

AsyncKeyPress ==
  /\ Running
  /\ \E name \in SyncKeyNames :
       LET r == keypress(Cur, name, {})
       IN  Commit(r) /\ ev' = Event("key", name, r)

\* Enter in the focused list: the handler runs up to its await
AsyncListEnter ==
  /\ Running
  /\ listFocused
  /\ ~commandVisible
  /\ Len(pending) < MaxPending
  /\ LET r == itemSelectedStart(Cur)
     IN  Commit(r) /\ ev' = Event("listEnter", Null, r)

\* a call in flight settles, in any order, and its handler resumes
AsyncResolve ==
  /\ Running
  /\ \E i \in 1..Len(pending), ok \in BOOLEAN :
       /\ ok \/ fails < MaxFails
       /\ LET r == itemSelectedResume(
                     [Cur EXCEPT !.pending = RemoveAt(pending, i),
                                 !.fails = IF ok THEN @ ELSE @ + 1],
                     pending[i], ok)
          IN  Commit(r) /\ ev' = Event("resolve", Null, r)

AsyncNext ==
  \/ AsyncKeyPress
  \/ AsyncListEnter
  \/ AsyncResolve
  \/ ListMove
  \/ FilterInput

AsyncSpec == Init /\ [][AsyncNext]_vars

\* ------------------------------------------------------------------ rejected listings
\* RejectSpec lets the store reject the listing of a selected vault as well;
\* the user navigates and opens vaults and secrets, and starts no action.

\* Enter in the focused list, the listing or the fetch it awaits may reject
ListEnterRejecting ==
  /\ Running
  /\ listFocused
  /\ ~commandVisible
  /\ \E f \in FailSets({"list", "get"}) :
       LET r == listItemSelected(Cur, f)
       IN  Commit(r) /\ ev' = Event("listEnter", Null, r)

\* Enter in the focused filter, the listing or the fetch it awaits may reject
FilterEnterRejecting ==
  /\ Running
  /\ filterFocused
  /\ \E f \in FailSets({"list", "get"}) :
       LET r == filterEnter(Cur, f)
       IN  Commit(r) /\ ev' = Event("filterEnter", Null, r)

RejectNext ==
  \/ AsyncKeyPress
  \/ ListMove
  \/ FilterInput
  \/ ListEnterRejecting
  \/ FilterEnterRejecting

RejectSpec == Init /\ [][RejectNext]_vars

\* ------------------------------------------------------------------ filtering
\* FilterSpec draws the discovered vaults from the sorted sub-lists of
\* FilterItems and lets the user type queries into the filter.

\* vault names in the order getVaultsAllSubscriptions sorts them (localeCompare)
FilterItems == << <<"k">>, <<"v">>, <<"V", "w">>, <<"w">>, <<"W", "v">> >>

\* the items of seq at the positions in pick, in the order of seq
SubList(seq, pick) ==
  LET F[i \in 0..Len(seq)] ==
        IF i = 0 THEN <<>>
        ELSE IF i \in pick THEN Append(F[i - 1], seq[i]) ELSE F[i - 1]
  IN  F[Len(seq)]

\* texts the user types in the filter
Queries ==
  { EmptyStr, <<"w">>, <<"W">>, <<"v">>, <<"V", "W">>, <<"w", "v">>, <<"q">> }

FilterInit ==
  \E pick \in SUBSET (1..Len(FilterItems)) :
    Booted(SubList(FilterItems, pick), Msg("selectVaultHint"))

\* typing in the focused filter changes its text
FilterType ==
  /\ Running
  /\ filterFocused
  /\ \E val \in Queries \ {filterValue} :
       LET r == filterInput([Cur EXCEPT !.filterValue = val], val)
       IN  Commit(r) /\ ev' = Event("filterInput", val, r)

FilterNext ==
  \/ AsyncKeyPress
  \/ FilterType
  \/ ListMove

FilterSpec == FilterInit /\ [][FilterNext]_vars

\* ------------------------------------------------------------------ writes
\* WriteSpec follows, in started, the vault and the secret an action was started
\* on, through cancelling, back navigation and vault selection up to its submit.

\* the keys that start an edit, a rename or a creation
StartKeys == { <<"e">>, <<"r">>, <<"n">> }

\* started after a handler that ended in r: set by a start key that opened its
\* prompt, cleared once no action mode is left
Track(name, r) ==
  IF name \in StartKeys /\ r.actions > actions
    THEN [vault |-> currentVault, secret |-> r.actionSecret]
  ELSE IF r.actionMode = "none" THEN NotStarted
  ELSE started

TrackedKeyPress ==
  /\ Running
  /\ \E name \in KeyNames :
     \E f \in (IF name \in { <<"c">>, <<"e">> } THEN FailSets({"get"}) ELSE {{}}) :
       LET r == keypress(Cur, name, f)
       IN  Assign(r) /\ ev' = Event("key", name, r) /\ started' = Track(name, r)

TrackedCommandBarEnter ==
  /\ Running
  /\ commandFocused
  /\ \E cmd \in Inputs(actionMode), f \in FailSets({"get", "set", "del"}) :
       LET r == commandBarEnter(Cur, cmd, f)
       IN  Assign(r) /\ ev' = Event("submit", cmd, r) /\ started' = Track(Null, r)

WriteNext ==
  \/ TrackedKeyPress
  \/ TrackedCommandBarEnter
  \/ ListMove
  \/ ListEnter

WriteSpec == Init /\ [][WriteNext]_vars

\* ------------------------------------------------------------------ claims
ActionModes ==
  { "none", "editValue", "rename", "moveTarget", "moveNewName", "createName",
    "createValue" }

QuitCommands == { <<"q">>, <<"q", "u", "i", "t">> }

\* the last event was a prompt submit dispatched in action mode m
Submitted(m) == ev.op = "submit" /\ ev.mode = m

\* C1: Escape while the command prompt is visible in EditValue, Rename,
\* CreateName or CreateValue resets the action mode to None and clears the action
\* payload (associated secret, pending created name).
C1_CancelResetsAction ==
  (commandVisible
     /\ actionMode \in {"editValue", "rename", "createName", "createValue"})
  => LET r == keypress(Cur, <<"escape">>, {})
     IN  /\ r.actionMode = "none"
         /\ r.actionSecret = Null
         /\ r.createNewSecretName = Null

\* C2: selecting a vault from SelectVault leaves no action mode, associated
\* secret, move target or pending created name behind.
C2_VaultSwitchResetsAction ==
  [][ (state = "selectVault" /\ state' = "listSecrets")
      => /\ actionMode' = "none"
         /\ actionSecret' = Null
         /\ moveTargetVault' = Null
         /\ createNewSecretName' = Null ]_vars

\* C3: the secret-value cache is empty immediately after every change of the
\* active vault (a vault selected, or ListSecrets left for SelectVault).
C3_CacheEmptyAfterVaultChange ==
  [][ currentVault' # currentVault => secretCache' = EmptyMap ]_vars

\* C4: when a set fails during the submit of EditValue, Rename, MoveNewName or
\* CreateValue, the failure is reported in the detail pane and the workflow ends
\* with action mode None and the prompt closed.
C4_FailedMutationResets ==
  (ev.op = "submit"
     /\ ev.mode \in {"editValue", "rename", "moveNewName", "createValue"}
     /\ "set" \in ev.failed)
  => /\ actionMode = "none"
     /\ ~commandVisible
     /\ details.t = "error"

\* C5: in every action mode other than None a submitted q or quit is that mode's
\* input text and never terminates the application.
C5_QuitOnlyWithoutMode ==
  (ev.op = "submit" /\ ev.mode # "none") => exitCalls = <<>>


\* C6: with action mode None, a submitted text that trims to q or quit exits with
\* code 0, and any other text changes neither the store, the cache, the view state
\* nor the action mode: the prompt only closes.
C6_TopLevelCommand ==
  [][ (ev'.op = "submit" /\ actionMode = "none")
      => /\ exitCalls' = (IF Trim(ev'.arg) \in QuitCommands THEN <<0>> ELSE <<>>)
         /\ store' = store
         /\ secretCache' = secretCache
         /\ state' = state
         /\ atSecretDetail' = atSecretDetail
         /\ currentVault' = currentVault
         /\ actionMode' = "none"
         /\ ~commandVisible' ]_vars

C6_Witness ==
  /\ Submitted("none")
  /\ ev.arg = <<" ", "q">>
  /\ exitCalls = <<0>>

\* the name a MoveNewName / Rename submit writes under
SubmittedName(cmd, old) == IF Trim(cmd) # EmptyStr THEN Trim(cmd) ELSE old

\* the submit found the value of the action's secret in the active vault,
\* fetched without a failure
SourceValueKnown ==
  /\ actionSecret # Null
  /\ currentVault # Null
  /\ secretClient = currentVault
  /\ actionSecret \in DOMAIN store[currentVault]
  /\ ev'.failed = {}
  /\ ~ev'.thrown
  /\ (actionSecret \in DOMAIN secretCache => secretCache[actionSecret] # Null)

\* C7: after a MoveNewName submit the target vault holds the new name with the
\* value the secret has in the source vault, and the source vault still holds the
\* secret with its value unchanged.
C7_MoveCopiesValue ==
  [][ (ev'.op = "submit" /\ actionMode = "moveNewName" /\ moveTargetVault # Null
         /\ SourceValueKnown)
      => LET n2 == SubmittedName(ev'.arg, actionSecret)
         IN  /\ n2 \in DOMAIN store'[moveTargetVault]
             /\ store'[moveTargetVault][n2] = store[currentVault][actionSecret]
             /\ actionSecret \in DOMAIN store'[currentVault]
             /\ store'[currentVault][actionSecret] = store[currentVault][actionSecret]
    ]_vars

\* C8: a Rename submit with a non-empty name that differs from the old one leaves
\* the new name with the current value in the active vault, attempts the delete
\* of the old name (a failure of which does not abort) and reloads the list; an
\* empty or unchanged name performs no store write.
C8_RenameKeepsValue ==
  [][ (ev'.op = "submit" /\ actionMode = "rename" /\ SourceValueKnown)
      => LET new == Trim(ev'.arg)
         IN  IF new # EmptyStr /\ new # actionSecret
               THEN /\ new \in DOMAIN store'[currentVault]
                    /\ store'[currentVault][new] = store[currentVault][actionSecret]
                    /\ <<currentVault, actionSecret>> \in ev'.dels
                    /\ currentVault \in ev'.listed
               ELSE store' = store /\ ev'.sets = {} /\ ev'.dels = {}
    ]_vars


\* the last event was a CreateValue submit that wrote the secret and completed
Created ==
  /\ Submitted("createValue")
  /\ ~ev.thrown
  /\ ev.sets # {}

C11_BackFromMoveNewName ==
  actionMode = "moveNewName"
  => LET r1 == keypress(Cur, <<"b">>, {})
         r2 == keypress(r1, <<"b">>, {})
     IN  /\ r1.actionMode = "moveTarget"
         /\ r1.state = "moveSelectTarget"
         /\ r1.listOptions = filteredVaults
         /\ r1.allSecrets = allSecrets
         /\ r1.filteredSecrets = filteredSecrets
         /\ r2.state = "listSecrets"
         /\ ~r2.atSecretDetail


\* C12: when the vault name submitted in MoveTarget matches no known vault
\* (case-insensitive), 'Vault not found' is reported and the workflow remains in
\* MoveTarget with its source secret intact.
C12_VaultNotFoundStaysInMoveTarget ==
  [][ ( /\ ev'.op = "submit"
        /\ actionMode = "moveTarget"
        /\ actionSecret # Null
        /\ FindVault(allVaults, ToLowerCase(Trim(ev'.arg))) = Null )
      => /\ details' = Msg("vaultNotFound")
         /\ actionMode' = "moveTarget"
         /\ actionSecret' = actionSecret ]_vars


\* the call p was issued for a vault that is no longer the current one
Stale(p) == p.vault # currentVault

\* the step is the settling of the i-th call in flight
Settles(i) == i \in 1..Len(pending) /\ pending' = RemoveAt(pending, i)

\* C13: a stale remote response is discarded: when a listing or value fetch
\* settles after the user navigated away from the vault it was issued for, it
\* changes neither the list contents, the secret collections, the detail flag
\* nor the detail pane.
C13_StaleResponseDiscarded ==
  [][ \A i \in 1..Len(pending) :
        (Settles(i) /\ Stale(pending[i]))
        => UNCHANGED << listOptions, allSecrets, filteredSecrets, atSecretDetail,
                        details >> ]_vars

\* C14: handlers run to completion: while a handler awaits a remote call, the
\* only step taken is the settling of a call; no key, list-selection or
\* prompt-submit event is processed in between.
C14_HandlersRunToCompletion ==
  [][ pending # <<>> => \E i \in 1..Len(pending) : Settles(i) ]_vars


\* C15: when no action-mode step can unwind, back navigation goes exactly one
\* layer: detail flag true -> false; else MoveSelectTarget -> ListSecrets; else
\* ListSecrets -> SelectVault, clearing the current vault, the secret
\* collections and the cache; in SelectVault a back step changes nothing.
C15_BackGoesOneLayer ==
  actionMode # "moveNewName"
  => LET r == keypress(Cur, <<"b">>, {})
     IN  IF atSecretDetail
           THEN /\ ~r.atSecretDetail
                /\ r.state = state
                /\ r.currentVault = currentVault
                /\ r.allSecrets = allSecrets
                /\ r.filteredSecrets = filteredSecrets
         ELSE IF state = "moveSelectTarget"
           THEN /\ r.state = "listSecrets"
                /\ ~r.atSecretDetail
                /\ r.currentVault = currentVault
                /\ r.allSecrets = allSecrets
                /\ r.filteredSecrets = filteredSecrets
         ELSE IF state = "listSecrets"
           THEN /\ r.state = "selectVault"
                /\ ~r.atSecretDetail
                /\ r.currentVault = Null
                /\ r.allSecrets = <<>>
                /\ r.filteredSecrets = <<>>
                /\ r.secretCache = EmptyMap
         ELSE r = Cur


\* what the panes show and the workflow the user is in
View ==
  << state, atSecretDetail, actionMode, actionSecret, currentVault, allSecrets,
     filteredSecrets, listOptions, listSelectedIndex, details, filterValue >>

\* C16: Escape is resolved in strict priority: if the command prompt is visible
\* it only closes the prompt; else if the focus is on the filter it only returns
\* the focus to the list; else it invokes back-navigation.
C16_EscapePriority ==
  [][ ev'.op = "escape"
      => IF commandVisible
           THEN /\ ~commandVisible'
                /\ focus = "filter" => focus' = "filter"
                /\ UNCHANGED View
         ELSE IF focus = "filter"
           THEN /\ focus' = "list"
                /\ listFocused' /\ ~filterFocused'
                /\ ~commandVisible'
                /\ UNCHANGED View
         ELSE Cur' = goBackOneLayer(Cur) ]_vars

\* Escape closed the prompt of a started action while the filter had the focus
C16_Witness ==
  /\ ev.op = "escape"
  /\ actionMode = "createName"
  /\ ~commandVisible
  /\ focus = "filter"

\* C17: in every reachable state, pressing b leaves the view state, detail
\* flag, focus, prompt visibility and action mode in the same state as pressing
\* Escape would.
C17_BSameAsEscape ==
  LET b == keypress(Cur, <<"b">>, {})
      e == keypress(Cur, <<"escape">>, {})
  IN  /\ b.state = e.state
      /\ b.atSecretDetail = e.atSecretDetail
      /\ b.focus = e.focus
      /\ b.commandVisible = e.commandVisible
      /\ b.actionMode = e.actionMode


\* the keys that start an action
EntryKeys == { <<"e">>, <<"r">>, <<"m">>, <<"n">> }

\* C18: a new action mode cannot be entered while one is active: when the
\* action mode is not None, the entry keys e, r, m and n change neither the
\* action mode nor its payload.
C18_NoEntryWhileActive ==
  actionMode # "none"
  => \A k \in EntryKeys :
       LET r == keypress(Cur, k, {})
       IN  /\ r.actionMode = actionMode
           /\ r.actionSecret = actionSecret
           /\ r.moveTargetVault = moveTargetVault
           /\ r.createNewSecretName = createNewSecretName


\* C19: view state MoveSelectTarget is entered only from ListSecrets with the
\* detail flag on, by the move action (key m on the selected secret).
C19_MoveSelectTargetOnlyByMove ==
  [][ (state # "moveSelectTarget" /\ state' = "moveSelectTarget")
      => /\ state = "listSecrets"
         /\ atSecretDetail
         /\ actionMode' = "moveTarget"
         /\ actionSecret' = getSelectedOption(Cur)
         /\ moveTargetVault' = Null ]_vars

\* C20: focus and prompt visibility are coupled: exactly one of list, filter
\* and command prompt is the focus target (the value of focus), and the focus
\* target is Command exactly when the command prompt is visible.
C20_FocusCoupledToPrompt ==
  /\ focus \in {"list", "filter", "command"}
  /\ (focus = "command") <=> commandVisible


\* C21: if the store rejects the listing of a selected vault's secrets, the UI
\* is not left in the 'Loading secrets...' status with view state ListSecrets.
C21_RejectedListingReported ==
  [][ (state = "selectVault" /\ fails' > fails)
      => ~(state' = "listSecrets" /\ details' = Msg("loadingSecrets")) ]_vars


\* the last event was a terminal submit that completed without a store error
TerminalSubmitDone ==
  /\ ev.op = "submit"
  /\ ev.mode \in {"editValue", "rename", "moveNewName", "createValue"}
  /\ ~ev.thrown
  /\ ev.failed = {}
  /\ exitCalls = <<>>

\* C22: after a terminal submit of EditValue, Rename, MoveNewName or CreateValue
\* completes without a store error, the action mode is None, the action payload
\* (associated secret, move target vault, pending name) is cleared, the prompt
\* is hidden and the focus is on the list.
C22_TerminalSubmitResets ==
  TerminalSubmitDone
  => /\ actionMode = "none"
     /\ actionSecret = Null
     /\ moveTargetVault = Null
     /\ createNewSecretName = Null
     /\ ~commandVisible
     /\ focus = "list"


\* C23: while the command prompt is visible, Enter is owned by the prompt: an
\* Enter press in the focused list or filter activates nothing (no vault, secret
\* or move target is selected), whatever the store would answer.
C23_PromptOwnsEnter ==
  commandVisible
  => \A f \in SUBSET {"list", "get"} :
       /\ listHandleKeyPress(Cur, f) = Cur
       /\ filterEnter(Cur, f) = Cur

\* the prompt of a started action is visible while the list has the focus and a
\* vault, secret or target is selected that Enter would otherwise activate
C23_Witness ==
  /\ commandVisible
  /\ actionMode # "none"
  /\ focus = "list"
  /\ listFocused
  /\ getSelectedOption(Cur) # Null
  /\ listItemSelected(Cur, {}) # Cur


Pos(seq, x) == CHOOSE i \in 1..Len(seq) : seq[i] = x

\* sub keeps items of seq, each once, in the order of seq
IsSubsequence(sub, seq) ==
  /\ \A i \in 1..Len(sub) : \E j \in 1..Len(seq) : seq[j] = sub[i]
  /\ \A i, j \in 1..Len(sub) : i < j => Pos(seq, sub[i]) < Pos(seq, sub[j])

\* C25: the filter is case-insensitive substring matching on the item name, is
\* idempotent and is the identity on the empty query: for all item sequences S
\* and queries q, filter(filter(S,q),q) = filter(S,q), filter(S,"") = S, and the
\* result is a subsequence of S in the same order.
C25_FilterLaws ==
  /\ filteredVaults = filterByName(allVaults, filterValue)
  /\ listOptions = filteredVaults
  /\ filterByName(allVaults, EmptyStr) = allVaults
  /\ \A q \in Queries :
       LET once == filterByName(allVaults, q)
       IN  /\ filterByName(once, q) = once
           /\ IsSubsequence(once, allVaults)
           /\ \A i \in 1..Len(allVaults) :
                (\E j \in 1..Len(once) : once[j] = allVaults[i])
                  <=> Includes(ToLowerCase(allVaults[i]), ToLowerCase(q))

\* the query W keeps the three names that hold a w or a W, of five
C25_Witness ==
  /\ filterValue = <<"W">>
  /\ Len(allVaults) = 5
  /\ filteredVaults = << <<"V", "w">>, <<"w">>, <<"W", "v">> >>


\* C26: the detail flag is a sub-state of listSecrets: in every reachable state,
\* if atSecretDetail is true then the view state is listSecrets, never
\* selectVault or moveSelectTarget.
C26_DetailOnlyInListSecrets ==
  atSecretDetail => state = "listSecrets"


\* the full collection the list of view state st is drawn from
FullCollection(st, vaults, secrets) ==
  IF st = "listSecrets" THEN secrets ELSE vaults

\* the filtered projection the list of view state st shows
Projection(st, vaults, secrets) ==
  IF st = "listSecrets" THEN secrets ELSE vaults

\* C27: the filtered projections are recomputed on every filter-text change and
\* reset to the full collection on every transition that leaves a filtering
\* context (vault selected, back to the vault list, entering and leaving
\* move-target selection): the list shown after such a transition is the full
\* collection of the new state.
C27_ProjectionsResetOnTransition ==
  [][ /\ filterValue' # filterValue
        => Projection(state', filteredVaults', filteredSecrets')
             = filterByName(FullCollection(state', allVaults', allSecrets'), filterValue')
      /\ state' # state
        => /\ Projection(state', filteredVaults', filteredSecrets')
                = FullCollection(state', allVaults', allSecrets')
           /\ listOptions' = FullCollection(state', allVaults', allSecrets') ]_vars


\* Enter on the selected secret finds no cache entry for it
SelectsUncached ==
  /\ state = "listSecrets"
  /\ focus = "list"
  /\ secretClient # Null
  /\ getSelectedOption(Cur) # Null
  /\ getSelectedOption(Cur) \notin DOMAIN secretCache

\* what the store answers to the get p when it settles in this step
Fetched(p) ==
  IF fails' = fails /\ p.vault \in DOMAIN store /\ p.name \in DOMAIN store[p.vault]
    THEN store[p.vault][p.name]
    ELSE Null

\* C28: gets are not single-flight: a get for an uncached secret name invokes
\* the store's getSecret even while a get for the same name is in flight, and
\* each get that settles writes its result over the cache entry, so the entry
\* ends up holding the result of whichever fetch resolves last.
C28_GetsNotSingleFlight ==
  [][ /\ SelectsUncached
        => itemSelectedStart(Cur).pending
             = Append(pending, Call("get", secretClient, getSelectedOption(Cur)))
      /\ \A i \in 1..Len(pending) :
           (Settles(i) /\ pending[i].call = "get")
           => /\ pending[i].name \in DOMAIN secretCache'
              /\ secretCache'[pending[i].name] = Fetched(pending[i]) ]_vars

\* of two gets for k issued before either settled, one was rejected and left
\* null in the cache, the other is still in flight
C28_Witness ==
  /\ pending = << Call("get", VaultV, SecretK) >>
  /\ currentVault = VaultV
  /\ SecretK \in DOMAIN secretCache
  /\ secretCache[SecretK] = Null
  /\ fails = MaxFails
  /\ atSecretDetail


\* C29: every store write issued by an editValue, rename or createValue submit
\* targets the vault that was active when that action was started and, for
\* editValue and rename, the secret selected at that moment; no sequence of
\* cancel, back navigation and vault selection makes such a submit write into
\* a different vault.
C29_WritesTargetStartVault ==
  [][ (writes' > writes /\ actionMode \in {"editValue", "rename", "createValue"})
      => /\ \A w \in ev'.sets : w[1] = started.vault
         /\ actionMode \in {"editValue", "rename"} => actionSecret = started.secret
         /\ actionMode = "editValue" => \A w \in ev'.sets : w[2] = started.secret
         /\ \A d \in ev'.dels : d = <<started.vault, started.secret>> ]_vars


\* C30: cache coherence: with the store modified only by this program, in every
\* reachable state each non-null cache entry name -> v equals the value the
\* store holds for name in the currently active vault.
C30_CacheCoherence ==
  currentVault # Null
  => \A name \in DOMAIN secretCache :
       secretCache[name] # Null
       => /\ name \in DOMAIN store[currentVault]
          /\ store[currentVault][name] = secretCache[name]


\* the value of the action's secret is unavailable to the submit of this step:
\* its cache entry is null, or the fetch the submit makes is rejected
SourceValueUnavailable ==
  /\ actionSecret # Null
  /\ \/ actionSecret \in DOMAIN secretCache /\ secretCache[actionSecret] = Null
     \/ actionSecret \notin DOMAIN secretCache /\ "get" \in ev'.failed

\* C31: an unavailable value is never written as a real value: when the fetch
\* of the source secret's value failed (cache entry null), a rename or move
\* submit writes nothing under the new name, neither an empty string nor any
\* other value, and does not delete the old secret.
C31_UnavailableValueNotWritten ==
  [][ (ev'.op = "submit" /\ actionMode \in {"rename", "moveNewName"}
         /\ SourceValueUnavailable)
      => ev'.sets = {} /\ ev'.dels = {} /\ store' = store ]_vars


\* C32: the active vault, the store client and the view state stay consistent:
\* in every reachable state currentVault and secretClient are both set exactly
\* when the view state is not selectVault, and both are null exactly when it is.
C32_VaultClientViewConsistent ==
  /\ state = "selectVault" <=> currentVault = Null
  /\ state = "selectVault" <=> secretClient = Null


\* the vault list with the prompt hidden and the focus on the list
Home(s) == s.state = "selectVault" /\ ~s.commandVisible /\ s.focus = "list"

\* at most n Escape presses, and no other event, take s to a home state that
\* further Escape presses leave unchanged
RECURSIVE EscapesHome(_, _)
EscapesHome(s, n) ==
  IF Home(s) /\ KeyEscape(s) = s THEN TRUE
  ELSE n > 0 /\ EscapesHome(KeyEscape(s), n - 1)

\* C33: Escape always leads home: from every reachable state with no remote
\* call pending, pressing Escape repeatedly, with no other events, reaches view
\* state selectVault with the prompt hidden and focus on the list within at
\* most 6 presses, and further Escape presses leave that state unchanged.
C33_EscapeLeadsHome ==
  pending = <<>> => EscapesHome(Cur, 6)

\* a state that all 6 presses are needed from
C33_Witness ==
  /\ pending = <<>>
  /\ EscapesHome(Cur, 6)
  /\ ~EscapesHome(Cur, 5)


\* the handler that ended in r asked the store for no set and no delete and
\* left every vault as it was
Untouched(r) == r.store = store /\ r.sets = {} /\ r.dels = {}

\* C34: only a prompt submit mutates the store: key presses (c, e, r, m, n, b,
\* Escape, Tab, /, :), filter typing, list selection changes and list or filter
\* activation never set or delete a secret in any vault; every set or delete
\* happens inside the prompt's submit handler with an action mode other than
\* none.
C34_OnlySubmitMutatesStore ==
  /\ \A name \in KeyNames, f \in FailSets({"get"}), c \in ClipSets :
       Untouched(keypress(Cur, name, f \cup c))
  /\ \A val \in FilterTexts :
       Untouched(filterInput([Cur EXCEPT !.filterValue = val], val))
  /\ \A i \in 0..(Len(listOptions) - 1) : Untouched(listSetSelectedIndex(Cur, i))
  /\ \A f \in FailSets({"get"}) :
       Untouched(listHandleKeyPress(Cur, f)) /\ Untouched(filterEnter(Cur, f))
  /\ actionMode = "none"
       => \A cmd \in Inputs("none"), f \in FailSets({"get", "set", "del"}) :
            Untouched(commandBarEnter(Cur, cmd, f))
  /\ (ev.sets # {} \/ ev.dels # {}) => ev.op = "submit" /\ ev.mode # "none"
  /\ store # InitialStore => writes > 0

\* a rename submit has written the new name and deleted the old one, with the
\* renamed secret open, where the keys c, e, r and m act
C34_Witness ==
  /\ Submitted("rename")
  /\ ev.sets # {}
  /\ ev.dels # {}
  /\ store # InitialStore
  /\ state = "listSecrets"
  /\ allSecrets # <<>>

====
